---------------------------- MODULE Spec2Model ----------------------------
(***************************************************************************)
(* A model of the NoThrow library: the Result containers Ok / Err and     *)
(* ResultFactory (src/src/result.ts) with the generator engine gen, the    *)
(* retry helper tryPromise and the aggregates all and partition, and the   *)
(* Option containers Some / None with OptionFactory.                       *)
(*                                                                         *)
(* The specifications of the module:                                       *)
(*   GenSpec  a gen-wrapped generator function driven by the engine loop   *)
(*   GenOptionSpec  the same, the generator composing options too          *)
(*   GenChainSpec   the same, the steps computed from the values before    *)
(*   TrySpec  one tryPromise call, over every configuration                *)
(*   TryFairSpec    TrySpec with the event loop running every ready step   *)
(*   ConcSpec two tryPromise calls interleaved on one event loop           *)
(*   AllSpec  the loops of all and partition over a sequence of results    *)
(*   OpsSpec  single operations on Result and Option values                *)
(*   IterSpec the iterators of Ok and Err, advanced by hand                *)
(***************************************************************************)
EXTENDS Integers, Sequences, FiniteSets, TLC

(***************************************************************************)
(* Bounds of the model.                                                    *)
(***************************************************************************)
MaxSteps == 3
MaxTimes == 3
ConcMaxTimes == 1
MaxLen == 3

(***************************************************************************)
(* JavaScript values.  A value carries its type, so that values of         *)
(* different types can be told apart.                                      *)
(***************************************************************************)
Num(n) == [t |-> "number", n |-> n]
Str(s) == [t |-> "string", s |-> s]
Undefined == [t |-> "undefined"]
NaN == [t |-> "NaN"]
\* new Error(message)
ErrorObj(m) == [t |-> "Error", message |-> m]

\* a + b on numbers; undefined + number is NaN
JsAdd(a, b) ==
  IF a.t = "number" /\ b.t = "number" THEN Num(a.n + b.n) ELSE NaN

(***************************************************************************)
(* class Ok / class Err                                                    *)
(***************************************************************************)
Ok(v) == [tag |-> "Ok", value |-> v]
Err(e) == [tag |-> "Err", error |-> e]

\* new Some(v)
Some(v) == [tag |-> "Some", value |-> v]
\* new None()
NoneObj(id) == [tag |-> "None", id |-> id]
\* value is an object of class None
IsNone(x) == "tag" \in DOMAIN x /\ x.tag = "None"

\* result.isErr() / result instanceof Err
isErr(r) == r.tag = "Err"
\* result.isOk()
isOk(r) == r.tag = "Ok"

\* The property access (result as Ok).value: undefined on an object that
\* has no such field.
ValueField(r) == IF "value" \in DOMAIN r THEN r.value ELSE Undefined

\* An Ok whose iterator yields the Ok before it returns.
OkIteratorYields(r) == [done |-> FALSE, value |-> r]
\* Ok[Symbol.iterator]().next(): the generator returns at once.
OkIteratorNext(r) == [done |-> TRUE, value |-> r.value]
\* Err[Symbol.iterator]().next(): the generator yields the Err itself.
ErrIteratorNext(r) == [done |-> FALSE, value |-> r]
\* Some[Symbol.iterator]().next(): the generator returns at once.
SomeIteratorNext(o) == [done |-> TRUE, value |-> o.value]
\* None[Symbol.iterator]().next(): the generator yields the None itself.
NoneIteratorNext(o) == [done |-> FALSE, value |-> o]
\* r[Symbol.iterator]().next(): the generator of r's class.
IteratorNext(r) ==
  CASE r.tag = "Ok" -> OkIteratorNext(r)
    [] r.tag = "Err" -> ErrIteratorNext(r)
    [] r.tag = "Some" -> SomeIteratorNext(r)
    [] r.tag = "None" -> NoneIteratorNext(r)


VARIABLES
  \* ---- gen ----
  proc,        \* the generator function handed to gen: its steps and its return
  gpc,         \* where the call of the wrapped function stands
  k,           \* number of steps of the generator body that have completed
  got,         \* what each completed yield / yield* expression evaluated to
  evald,       \* indexes of the steps evaluated so far, in order
  next,        \* the engine's variable next: the last IteratorResult
  sent,        \* the arguments of the engine's generator.next(v) calls
  genResult,   \* what the wrapped function returned
  \* ---- tryPromise ----
  config,      \* per call: the config object
  pc,          \* per call: where the async function stands
  attempt,     \* per call: the loop variable attempt
  invocations, \* per call: number of calls of config.try
  tries,       \* per call: how each settled attempt ended, in order
  delays,      \* per call: the setTimeout delays awaited, in order
  caught,      \* per call: the arguments of the calls of config.catch
  outcome,     \* per call: how the returned promise settled
  \* ---- all ----
  results,     \* the argument of all
  apc,         \* where the call of all stands
  ai,          \* number of elements the for-of loop has taken
  values,      \* the local array values
  allResult,   \* what all returned
  \* ---- partition ----
  ppc,         \* where the call of partition stands
  pidx,        \* number of elements the for-of loop has taken
  okValues,    \* the local array okValues
  errValues,   \* the local array errValues
  partResult,  \* what partition returned
  \* ---- single operations on Result and Option values ----
  op,          \* the operation applied last
  recv,        \* its receiver (a method) or its input (a factory function)
  arg,         \* its argument
  ret,         \* how it ended: returned or threw, what, and the calls it
               \* made of the function handed to it
  noneInstance,\* the static field None._instance
  noneMade,    \* number of None objects constructed so far
  iter         \* an iterator of a result: the result, where its generator
               \* stands, and what its next() calls returned

genVars == <<proc, gpc, k, got, evald, next, sent, genResult>>
tryVars == <<config, pc, attempt, invocations, tries, delays, caught, outcome>>
allVars == <<results, apc, ai, values, allResult>>
partVars == <<ppc, pidx, okValues, errValues, partResult>>
opsVars == <<op, recv, arg, ret, noneInstance, noneMade, iter>>
vars == <<genVars, tryVars, allVars, partVars, opsVars>>

\* A variable that holds nothing yet.
Nothing == [tag |-> "nothing"]

(***************************************************************************)
(* ResultFactory.gen                                                       *)
(*                                                                         *)
(* The generator function is user code.  The model runs the straight-line  *)
(* generator functions of the tests: steps  x_i = yield* r_i  (delegating  *)
(* to r_i's iterator) or  x_i = yield r_i  (handing r_i over directly),    *)
(* followed by  return ok(x_1 + ... + x_n)  or  return err("R").           *)
(***************************************************************************)
StepModes == {"yield*", "yield"}
StepOutcomes == {Ok(Num(10)), Ok(Num(20)), Err(Str("B")), Err(Str("x"))}
StepSet == [mode : StepModes, out : StepOutcomes]
ReturnKinds == {"okSum", "errR"}
Procedures ==
  [steps : UNION {[1..n -> StepSet] : n \in 0..MaxSteps}, ret : ReturnKinds]

RECURSIVE SumOf(_)
SumOf(s) == IF s = <<>> THEN Num(0)
            ELSE JsAdd(SumOf(SubSeq(s, 1, Len(s) - 1)), s[Len(s)])

\* The return statement of the generator function.
ReturnOf(p, g) == IF p.ret = "okSum" THEN Ok(SumOf(g)) ELSE Err(Str("R"))

\* a > b: false when an operand is not a number.
GreaterThan(a, b) == a.t = "number" /\ b.t = "number" /\ a.n > b.n

\* Steps whose result depends on the values unwrapped before them:
\*   () => ok(10)                () => err("B")
\*   (...vs) => ok(sum(vs) + 1)  (...vs) => sum(vs) > 15 ? err("over") : ok(20)
StepFns == {"ok10", "errB", "okSumPlus1", "errOver15"}
\* fn(...vals)
CallStep(fn, vals) ==
  CASE fn = "ok10" -> Ok(Num(10))
    [] fn = "errB" -> Err(Str("B"))
    [] fn = "okSumPlus1" -> Ok(JsAdd(SumOf(vals), Num(1)))
    [] fn = "errOver15" ->
         IF GreaterThan(SumOf(vals), Num(15)) THEN Err(Str("over")) ELSE Ok(Num(20))
FnStepSet == [mode : StepModes, fn : StepFns]
FnProcedures ==
  [steps : UNION {[1..n -> FnStepSet] : n \in 0..MaxSteps}, ret : ReturnKinds]

\* The result step s composes, the values unwrapped so far being vals: a
\* result written in the step, or what the step's function returns.
StepResult(s, vals) ==
  IF "out" \in DOMAIN s THEN s.out ELSE CallStep(s.fn, vals)

\* The generator functions that also compose options: the engine is
\* handed whatever the generator yields, and None's iterator yields too.
OptionStepOutcomes == {Ok(Num(10)), Err(Str("B")), Some(Num(20)), NoneObj(1)}
OptionStepSet == [mode : StepModes, out : OptionStepOutcomes]
OptionProcedures ==
  [steps : UNION {[1..n -> OptionStepSet] : n \in 0..MaxSteps}, ret : ReturnKinds]

\* An engine that stops at a None as it stops at an Err.
instanceofErrOrNone(result) == result.tag \in {"Err", "None"}
\* An engine whose test for Err never succeeds.
instanceofErrNever(result) == FALSE
\* line 300: result instanceof Err
instanceofErr(result) == result.tag = "Err"

\* An engine that resumes with generator.next(), handing nothing back.
ResumeNothing(result) == Undefined
\* line 303: the argument of generator.next(...)
ResumeValue(result) == ValueField(result)

\* An engine that wraps the return value of the generator once more.
CompletionWrapped(nx) == Ok(nx.value)
\* line 306: return next.value
CompletionResult(nx) == nx.value

GenInit ==
  /\ proc \in Procedures
  /\ gpc = "created"
  /\ k = 0
  /\ got = <<>>
  /\ evald = <<>>
  /\ next = Nothing
  /\ sent = <<>>
  /\ genResult = Nothing

GenOptionInit ==
  /\ proc \in OptionProcedures
  /\ gpc = "created"
  /\ k = 0
  /\ got = <<>>
  /\ evald = <<>>
  /\ next = Nothing
  /\ sent = <<>>
  /\ genResult = Nothing

(***************************************************************************)
(* The same steps written as a chain of flatMap calls:                     *)
(*   f1().flatMap(v1 => f2(v1).flatMap(v2 => ... => <return statement>))   *)
(* A chain gives its result and the steps whose function it invoked, in    *)
(* order.                                                                  *)
(***************************************************************************)
\* An Ok.flatMap that hands nothing to its function.
ThisValueNothing(r) == Undefined
\* line 158: this.value
ThisValue(r) == r.value

RECURSIVE ChainFrom(_, _, _)
\* The closure v => <the chain from step i on>, which captured p and vals.
Closure(p, i, vals) == [p |-> p, i |-> i, vals |-> vals]
\* Calling the closure c with v.
CallClosure(c, v) == ChainFrom(c.p, c.i, Append(c.vals, v))

\* Ok.flatMap with the closure c: lines 157-159
OkFlatMapWith(r, c) == CallClosure(c, ThisValue(r))
\* Err.flatMap with the closure c: lines 228-230
ErrFlatMapWith(r, c) == [result |-> Err(r.error), invoked |-> <<>>]
\* r.flatMap(c): the method of r's class.
flatMapWith(r, c) ==
  IF isOk(r) THEN OkFlatMapWith(r, c) ELSE ErrFlatMapWith(r, c)

\* The chain from step i on, inside the closures that bound vals.
ChainFrom(p, i, vals) ==
  IF i > Len(p.steps) THEN [result |-> ReturnOf(p, vals), invoked |-> <<>>]
  ELSE LET r == StepResult(p.steps[i], vals)
           rest == flatMapWith(r, Closure(p, i + 1, vals))
       IN [result |-> rest.result, invoked |-> <<i>> \o rest.invoked]

\* The whole chain.
Chain(p) == ChainFrom(p, 1, <<>>)

GenChainInit ==
  /\ proc \in FnProcedures
  /\ gpc = "created"
  /\ k = 0
  /\ got = <<>>
  /\ evald = <<>>
  /\ next = Nothing
  /\ sent = <<>>
  /\ genResult = Nothing

\* The wrapped function is called: generatorFn(...args), then the first
\* generator.next() starts the body.
GenCall ==
  /\ gpc = "created"
  /\ gpc' = "running"
  /\ UNCHANGED <<proc, k, got, evald, next, sent, genResult>>
  /\ UNCHANGED <<tryVars, allVars, partVars, opsVars>>

\* The body evaluates its next step.  yield* r asks r's iterator: an Ok
\* completes at once with its value and the body goes on without
\* suspending; an Err yields itself, which suspends the body.  yield r
\* suspends the body with r.
ProcStep ==
  /\ gpc = "running"
  /\ k < Len(proc.steps)
  /\ LET s == proc.steps[k + 1]
         out == StepResult(s, got)
         it == IteratorNext(out)
     IN /\ evald' = Append(evald, k + 1)
        /\ IF s.mode = "yield*" /\ it.done
           THEN /\ got' = Append(got, it.value)
                /\ k' = k + 1
                /\ UNCHANGED <<gpc, next>>
           ELSE /\ next' = [done |-> FALSE,
                            value |-> IF s.mode = "yield*" THEN it.value
                                      ELSE out]
                /\ gpc' = "yielded"
                /\ UNCHANGED <<got, k>>
  /\ UNCHANGED <<proc, sent, genResult>>
  /\ UNCHANGED <<tryVars, allVars, partVars, opsVars>>

\* The body reaches its return statement: the generator is done.
ProcReturn ==
  /\ gpc = "running"
  /\ k = Len(proc.steps)
  /\ next' = [done |-> TRUE, value |-> ReturnOf(proc, got)]
  /\ gpc' = "completed"
  /\ UNCHANGED <<proc, k, got, evald, sent, genResult>>
  /\ UNCHANGED <<tryVars, allVars, partVars, opsVars>>

\* lines 297-304: one turn of the while loop.  An Err ends the call; any
\* other value resumes the generator with its value field, which becomes
\* the value of the suspended yield expression.
EngineInspect ==
  /\ gpc = "yielded"
  /\ LET result == next.value
     IN IF instanceofErr(result)
        THEN /\ genResult' = result
             /\ gpc' = "returned"
             /\ UNCHANGED <<k, got, sent>>
        ELSE /\ sent' = Append(sent, ResumeValue(result))
             /\ got' = Append(got, ResumeValue(result))
             /\ k' = k + 1
             /\ gpc' = "running"
             /\ UNCHANGED genResult
  /\ UNCHANGED <<proc, evald, next>>
  /\ UNCHANGED <<tryVars, allVars, partVars, opsVars>>

\* line 306: the loop ended because next.done.
EngineReturn ==
  /\ gpc = "completed"
  /\ genResult' = CompletionResult(next)
  /\ gpc' = "returned"
  /\ UNCHANGED <<proc, k, got, evald, next, sent>>
  /\ UNCHANGED <<tryVars, allVars, partVars, opsVars>>

GenNext == GenCall \/ ProcStep \/ ProcReturn \/ EngineInspect \/ EngineReturn

(***************************************************************************)
(* ResultFactory.tryPromise                                                *)
(*                                                                         *)
(* Calls run on one event loop: a call runs until its next await, and the  *)
(* settling of the awaited promise (an attempt of config.try, the timer of *)
(* a delay) resumes it.  config.try is user code: the model gives it as    *)
(* the set of ways one attempt may settle.  config.catch is absent or the  *)
(* mapper of the README and the tests, which reads error.message.          *)
(***************************************************************************)
Calls == {"A", "B"}

Fulfilled(v) == [state |-> "fulfilled", value |-> v]
Rejected(x) == [state |-> "rejected", reason |-> x]

Values == {Num(42), Str("success")}
Faults == {ErrorObj("Not yet"), Undefined}
Settlements == {Fulfilled(v) : v \in Values} \cup {Rejected(x) : x \in Faults}
ConcSettlements == {Fulfilled(Num(42)), Rejected(ErrorObj("Not yet"))}

DelayChoices == {10, 200}
Backoffs == {"linear", "exponential", "undefined"}
RetryConfigs == [times : -1..MaxTimes, delayMs : DelayChoices, backoff : Backoffs]
Configs ==
  [try : {Settlements}, catch : {"undefined", "message"},
   retry : {Undefined} \cup RetryConfigs]
ConcConfigs ==
  [try : {ConcSettlements}, catch : {"undefined"},
   retry : [times : 0..ConcMaxTimes, delayMs : {10},
            backoff : {"linear", "exponential"}]]
NoConfig == [try |-> {}, catch |-> "undefined", retry |-> Undefined]

RECURSIVE Pow2(_)
\* Math.pow(2, n) for a non-negative integer n
Pow2(n) == IF n = 0 THEN 1 ELSE 2 * Pow2(n - 1)

\* A budget that is one attempt too large.
MaxAttemptsOneMore(cfg) ==
  IF cfg.retry # Undefined THEN cfg.retry.times + 2 ELSE 1
\* line 323: const maxAttempts = retry ? retry.times + 1 : 1
MaxAttempts(cfg) == IF cfg.retry # Undefined THEN cfg.retry.times + 1 ELSE 1

\* A last-attempt test that no turn of the loop passes.
isLastAttemptOneBased(a, cfg) == a = MaxAttempts(cfg)

\* line 330: const isLastAttempt = attempt === maxAttempts - 1
isLastAttempt(a, cfg) == a = MaxAttempts(cfg) - 1

\* A catch block that goes to the next attempt without waiting.
AwaitsDelayNever(cfg) == FALSE
\* line 337: if (retry)
AwaitsDelay(cfg) == cfg.retry # Undefined

\* A schedule that counts the attempts from one.
DelayOneBased(retry, a) ==
  IF retry.backoff = "exponential" THEN retry.delayMs * Pow2(a + 1)
  ELSE retry.delayMs
\* lines 338-341: the delay before the next attempt
Delay(retry, a) ==
  IF retry.backoff = "exponential" THEN retry.delayMs * Pow2(a)
  ELSE retry.delayMs

\* The mapper (error) => ({ type: "NETWORK_ERROR", message: error.message }):
\* reading a property of undefined throws a TypeError.
MessageMapper(x) ==
  IF x = Undefined
  THEN [threw |-> TRUE, value |-> ErrorObj("TypeError")]
  ELSE [threw |-> FALSE,
        value |-> [t |-> "NETWORK_ERROR", message |-> x.message]]

\* A final failure that passes the raw fault on, mapper or not.
MappedErrorRaw(cfg, x) == [threw |-> FALSE, value |-> x]
\* line 333: const mappedError = catchFn ? catchFn(error) : (error as E)
MappedError(cfg, x) ==
  IF cfg.catch # "undefined" THEN MessageMapper(x)
  ELSE [threw |-> FALSE, value |-> x]

\* A loop variable that every call reads from the same place.
AttemptOfShared(c) == attempt["A"]
\* line 325: the loop variable attempt is local to the call
AttemptOf(c) == attempt[c]

TryFresh ==
  /\ attempt = [c \in Calls |-> 0]
  /\ invocations = [c \in Calls |-> 0]
  /\ tries = [c \in Calls |-> <<>>]
  /\ delays = [c \in Calls |-> <<>>]
  /\ caught = [c \in Calls |-> <<>>]
  /\ outcome = [c \in Calls |-> Nothing]

\* One call, over every configuration; call "B" is never made.
TryInit ==
  /\ \E cfg \in Configs :
       config = [c \in Calls |-> IF c = "A" THEN cfg ELSE NoConfig]
  /\ pc = [c \in Calls |-> IF c = "A" THEN "idle" ELSE "absent"]
  /\ TryFresh

\* Two calls in the same process.
ConcInit ==
  /\ config \in [Calls -> ConcConfigs]
  /\ pc = [c \in Calls |-> "idle"]
  /\ TryFresh

\* The promise of the call settles: the async function has returned or
\* thrown.
Finish(c, o) ==
  /\ outcome' = [outcome EXCEPT ![c] = o]
  /\ pc' = [pc EXCEPT ![c] = "done"]

\* line 325: the loop test with attempt = a, then the body up to its await:
\* config.try is invoked.  When the test fails the loop is left and line 348
\* returns.
LoopHead(c, a) ==
  /\ attempt' = [attempt EXCEPT ![c] = a]
  /\ IF a < MaxAttempts(config[c])
     THEN /\ invocations' = [invocations EXCEPT ![c] = @ + 1]
          /\ pc' = [pc EXCEPT ![c] = "attempting"]
          /\ UNCHANGED outcome
     ELSE /\ Finish(c, Fulfilled(Err(ErrorObj("Unexpected retry error"))))
          /\ UNCHANGED invocations

\* tryPromise(config) is called and runs to its first await.
TryCall(c) ==
  /\ pc[c] = "idle"
  /\ LoopHead(c, 0)
  /\ UNCHANGED <<config, tries, delays, caught>>
  /\ UNCHANGED <<genVars, allVars, partVars, opsVars>>

\* A loop that does not return on success and goes to its next turn.
OnFulfilledGoesOn(c, v) ==
  /\ LoopHead(c, AttemptOf(c) + 1)
  /\ UNCHANGED <<delays, caught>>
\* line 328: return new Ok(value)
OnFulfilled(c, v) ==
  /\ Finish(c, Fulfilled(Ok(v)))
  /\ UNCHANGED <<attempt, invocations, delays, caught>>

\* lines 329-345: the catch block
OnRejected(c, x) ==
  IF isLastAttempt(AttemptOf(c), config[c])
  THEN LET m == MappedError(config[c], x)
       IN /\ caught' = [caught EXCEPT
                          ![c] = IF config[c].catch # "undefined"
                                 THEN Append(@, x) ELSE @]
          /\ Finish(c, IF m.threw THEN Rejected(m.value)
                       ELSE Fulfilled(Err(m.value)))
          /\ UNCHANGED <<attempt, invocations, delays>>
  ELSE IF AwaitsDelay(config[c])
       THEN /\ delays' = [delays EXCEPT
                            ![c] = Append(@, Delay(config[c].retry, AttemptOf(c)))]
            /\ pc' = [pc EXCEPT ![c] = "delaying"]
            /\ UNCHANGED <<attempt, invocations, caught, outcome>>
       ELSE /\ LoopHead(c, AttemptOf(c) + 1)
            /\ UNCHANGED <<delays, caught>>

\* The promise of the attempt in flight settles and the call resumes.
Settle(c) ==
  /\ pc[c] = "attempting"
  /\ \E r \in config[c].try :
       /\ tries' = [tries EXCEPT ![c] = Append(@, r)]
       /\ IF r.state = "fulfilled" THEN OnFulfilled(c, r.value)
          ELSE OnRejected(c, r.reason)
  /\ UNCHANGED config
  /\ UNCHANGED <<genVars, allVars, partVars, opsVars>>

\* line 343: the timer fires, the loop goes to its next turn.
TimerFire(c) ==
  /\ pc[c] = "delaying"
  /\ LoopHead(c, AttemptOf(c) + 1)
  /\ UNCHANGED <<config, tries, delays, caught>>
  /\ UNCHANGED <<genVars, allVars, partVars, opsVars>>

TryNext == \E c \in Calls : TryCall(c) \/ Settle(c) \/ TimerFire(c)

(***************************************************************************)
(* ResultFactory.all                                                       *)
(***************************************************************************)
ResultSet == {Ok(Num(1)), Ok(Num(2)), Err(Str("x")), Err(Str("y"))}
Inputs == UNION {[1..n -> ResultSet] : n \in 0..MaxLen}

\* An array that takes its new element at the front.
PushFront(arr, v) == <<v>> \o arr
\* arr.push(v) (lines 362, 377, 379)
Push(arr, v) == Append(arr, v)

\* A loop that never returns early.
AllStopsAtNever(r) == FALSE
\* lines 359-361: if (result.isErr()) return result
AllStopsAt(r) == isErr(r)

RECURSIVE allFrom(_, _, _)
\* The for-of loop of all from element i on, with the values collected so far.
allFrom(rs, i, vs) ==
  IF i > Len(rs) THEN Ok(vs)
  ELSE IF AllStopsAt(rs[i]) THEN rs[i]
  ELSE allFrom(rs, i + 1, Push(vs, ValueField(rs[i])))

\* all(results)
all(rs) == allFrom(rs, 1, <<>>)

AllInit ==
  /\ results \in Inputs
  /\ apc = "called"
  /\ ai = 0
  /\ values = <<>>
  /\ allResult = Nothing

\* One turn of the for-of loop: the next element is taken and tested.
AllInspect ==
  /\ apc = "called"
  /\ ai < Len(results)
  /\ ai' = ai + 1
  /\ LET result == results[ai + 1]
     IN IF AllStopsAt(result)
        THEN /\ allResult' = result
             /\ apc' = "returned"
             /\ UNCHANGED values
        ELSE /\ values' = Push(values, ValueField(result))
             /\ UNCHANGED <<apc, allResult>>
  /\ UNCHANGED results
  /\ UNCHANGED <<genVars, tryVars, partVars, opsVars>>

\* line 365: return new Ok(values)
AllReturn ==
  /\ apc = "called"
  /\ ai = Len(results)
  /\ allResult' = Ok(values)
  /\ apc' = "returned"
  /\ UNCHANGED <<results, ai, values>>
  /\ UNCHANGED <<genVars, tryVars, partVars, opsVars>>

(***************************************************************************)
(* ResultFactory.partition, called with the same array as all.             *)
(***************************************************************************)
\* A loop that pushes the Err itself.
ErrorFieldWhole(r) == r
\* line 379: result.error
ErrorField(r) == IF r.tag = "Err" THEN r.error ELSE Undefined

\* A loop that takes every element for an Ok.
PartitionTakesOkAlways(r) == TRUE
\* line 376: if (result.isOk())
PartitionTakesOk(r) == isOk(r)

RECURSIVE partitionFrom(_, _, _, _)
\* The for-of loop of partition from element i on, with what was collected
\* so far.
partitionFrom(rs, i, oks, errs) ==
  IF i > Len(rs) THEN [ok |-> oks, err |-> errs]
  ELSE IF PartitionTakesOk(rs[i])
       THEN partitionFrom(rs, i + 1, Push(oks, ValueField(rs[i])), errs)
       ELSE partitionFrom(rs, i + 1, oks, Push(errs, ErrorField(rs[i])))

\* partition(results)
partition(rs) == partitionFrom(rs, 1, <<>>, <<>>)

PartitionInit ==
  /\ ppc = "called"
  /\ pidx = 0
  /\ okValues = <<>>
  /\ errValues = <<>>
  /\ partResult = Nothing

\* lines 375-381: one turn of the for-of loop.
PartitionInspect ==
  /\ ppc = "called"
  /\ pidx < Len(results)
  /\ pidx' = pidx + 1
  /\ LET result == results[pidx + 1]
     IN IF PartitionTakesOk(result)
        THEN /\ okValues' = Push(okValues, ValueField(result))
             /\ UNCHANGED errValues
        ELSE /\ errValues' = Push(errValues, ErrorField(result))
             /\ UNCHANGED okValues
  /\ UNCHANGED <<ppc, partResult>>
  /\ UNCHANGED <<genVars, tryVars, allVars, opsVars>>

\* line 383: return { ok: okValues, err: errValues }
PartitionReturn ==
  /\ ppc = "called"
  /\ pidx = Len(results)
  /\ partResult' = [ok |-> okValues, err |-> errValues]
  /\ ppc' = "returned"
  /\ UNCHANGED <<pidx, okValues, errValues>>
  /\ UNCHANGED <<genVars, tryVars, allVars, opsVars>>

AllNext == AllInspect \/ AllReturn \/ PartitionInspect \/ PartitionReturn

(***************************************************************************)
(* Single operations on Result and Option values.                          *)
(*                                                                         *)
(* One operation is applied after another, each to a receiver and an       *)
(* argument of its own.  A function handed to an operation is user code:   *)
(* the model gives it as one of a few functions of the tests, and an       *)
(* operation records the arguments of the calls it makes of it.            *)
(***************************************************************************)
Null == [t |-> "null"]
Bool(b) == [t |-> "boolean", b |-> b]

\* The payloads the operations are tried with: those of the tests, the
\* falsy values and the two absence sentinels.
Payloads ==
  {Num(0), Num(42), Str(""), Str("error"), Bool(FALSE), Null, Undefined,
   ErrorObj("oops")}

\* The results the methods are tried on.
Receivers == {Ok(v) : v \in Payloads} \cup {Err(e) : e \in Payloads}

\* How a call ended: it returned value, or it threw value; calls holds the
\* arguments of the calls it made of the function handed to it, in order.
Returned(v, cs) == [kind |-> "return", value |-> v, calls |-> cs]
Threw(x, cs) == [kind |-> "throw", value |-> x, calls |-> cs]
\* The promise an async function returned, not settled yet.
Pending == [kind |-> "pending"]
\* The argument list of a call fn().
NoArgument == [t |-> "no argument"]

\* No async call is waiting: the next operation may start.
Idle == ret # Pending

(***************************************************************************)
(* ResultFactory.fromThrowable                                             *)
(***************************************************************************)
\* The functions handed to fromThrowable: () => v and () => { throw x }.
ThunkReturns(v) == [body |-> "return", value |-> v]
ThunkThrows(x) == [body |-> "throw", value |-> x]
Thunks == {ThunkReturns(v) : v \in Payloads} \cup {ThunkThrows(x) : x \in Payloads}

\* A fromThrowable with no try block around the call.
fromThrowableUnguarded(fn) ==
  IF fn.body = "return"
  THEN Returned(Ok(fn.value), <<NoArgument>>)
  ELSE Threw(fn.value, <<NoArgument>>)

\* lines 263-269: fn is called once inside try; what it returns goes into
\* an Ok, what it throws is caught and goes into an Err.
fromThrowable(fn) ==
  IF fn.body = "return"
  THEN Returned(Ok(fn.value), <<NoArgument>>)
  ELSE Returned(Err(fn.value), <<NoArgument>>)

FromThrowable ==
  /\ Idle
  /\ \E fn \in Thunks :
       /\ op' = "fromThrowable"
       /\ recv' = Nothing
       /\ arg' = fn
       /\ ret' = fromThrowable(fn)
  /\ UNCHANGED <<noneInstance, noneMade, iter>>
  /\ UNCHANGED <<genVars, tryVars, allVars, partVars>>

(***************************************************************************)
(* ResultFactory.fromPromise                                               *)
(***************************************************************************)
PendingPromise == [state |-> "pending"]
\* The promises handed to fromPromise: settled already (Promise.resolve,
\* Promise.reject) or settling later.
PromiseSettlements ==
  {Fulfilled(v) : v \in Payloads} \cup {Rejected(x) : x \in Payloads}
Promises == PromiseSettlements \cup {PendingPromise}

\* A continuation that hands on the rejection.
AwaitedUncaught(p) ==
  IF p.state = "fulfilled"
  THEN Returned(Ok(p.value), <<>>)
  ELSE Threw(p.reason, <<>>)

\* lines 278-282: what the async function does when the awaited promise
\* has settled: the value goes into an Ok, the caught reason into an Err.
Awaited(p) ==
  IF p.state = "fulfilled"
  THEN Returned(Ok(p.value), <<>>)
  ELSE Returned(Err(p.reason), <<>>)

\* lines 274-278: the call runs to its await and returns a pending promise.
FromPromiseCall ==
  /\ Idle
  /\ \E p \in Promises :
       /\ op' = "fromPromise"
       /\ recv' = Nothing
       /\ arg' = p
       /\ ret' = Pending
  /\ UNCHANGED <<noneInstance, noneMade, iter>>
  /\ UNCHANGED <<genVars, tryVars, allVars, partVars>>

\* The promise handed to fromPromise settles.
PromiseSettles ==
  /\ op = "fromPromise"
  /\ arg = PendingPromise
  /\ \E s \in PromiseSettlements : arg' = s
  /\ UNCHANGED <<op, recv, ret, noneInstance, noneMade, iter>>
  /\ UNCHANGED <<genVars, tryVars, allVars, partVars>>

\* The async function resumes after its await, and its promise fulfils.
FromPromiseResume ==
  /\ op = "fromPromise"
  /\ ret = Pending
  /\ arg # PendingPromise
  /\ ret' = Awaited(arg)
  /\ UNCHANGED <<op, recv, arg, noneInstance, noneMade, iter>>
  /\ UNCHANGED <<genVars, tryVars, allVars, partVars>>

(***************************************************************************)
(* Functions handed to map, flatMap and filter.                            *)
(***************************************************************************)
\* ToNumber(v), as the operators * and - apply it to an operand.
ToNumber(v) ==
  CASE v.t = "number" -> v
    [] v.t = "string" -> IF v.s = "" THEN Num(0) ELSE NaN
    [] v.t = "boolean" -> IF v.b THEN Num(1) ELSE Num(0)
    [] v.t = "null" -> Num(0)
    [] OTHER -> NaN

\* a * b
JsMul(a, b) ==
  LET x == ToNumber(a)
      y == ToNumber(b)
  IN IF x = NaN \/ y = NaN THEN NaN ELSE Num(x.n * y.n)

\* a - b
JsSub(a, b) ==
  LET x == ToNumber(a)
      y == ToNumber(b)
  IN IF x = NaN \/ y = NaN THEN NaN ELSE Num(x.n - y.n)

Fn(name) == [fn |-> name]
\* x => g(f(x))
Compose(g, f) == [fn |-> "compose", g |-> g, f |-> f]

\* (x) => x, (x) => x * 2, (x) => x - 1
MapFns == {Fn("identity"), Fn("double"), Fn("decrement")}

RECURSIVE Apply(_, _)
\* fn(v)
Apply(fn, v) ==
  CASE fn.fn = "identity" -> v
    [] fn.fn = "double" -> JsMul(v, Num(2))
    [] fn.fn = "decrement" -> JsSub(v, Num(1))
    [] fn.fn = "compose" -> Apply(fn.g, Apply(fn.f, v))

\* (x) => x > 40, (x) => x < 40
Predicates == {Fn("above40"), Fn("below40")}
\* predicate(v): a comparison with a number compares ToNumber(v), and is
\* false on NaN.
Holds(pred, v) ==
  LET x == ToNumber(v)
  IN /\ x # NaN
     /\ IF pred.fn = "above40" THEN x.n > 40 ELSE x.n < 40

(***************************************************************************)
(* class Some / class None / OptionFactory                                 *)
(*                                                                         *)
(* None objects have an identity: the id of a None is its rank among the   *)
(* None objects constructed.  An operation gives what it returned and      *)
(* whether it read the static getter None.instance.                        *)
(***************************************************************************)

\* A getter that constructs a None on every read.
NoneInstanceAlwaysNew(inst, made) ==
  [instance |-> NoneObj(made + 1), made |-> made + 1]

\* static get instance(): the None kept in None._instance, constructed on
\* the first read; gives the field and the number of None objects after the
\* read.
NoneInstance(inst, made) ==
  IF inst = Undefined
  THEN [instance |-> NoneObj(made + 1), made |-> made + 1]
  ELSE [instance |-> inst, made |-> made]

\* An operation that did not read None.instance / that did.
Plain(out) == [out |-> out, read |-> FALSE]
ViaInstance(out) == [out |-> out, read |-> TRUE]

\* A test for a truthy value.
IsTruthy(v) ==
  ~ (v \in {Null, Undefined, Num(0), Str(""), Bool(FALSE), NaN})
\* value != null
NotNullish(v) == v # Null /\ v # Undefined

\* OptionFactory.none
none(inst) == ViaInstance(Returned(inst, <<>>))
\* OptionFactory.some
some(v) == Plain(Returned(Some(v), <<>>))
\* OptionFactory.fromNullable
fromNullable(v, inst) ==
  IF NotNullish(v) THEN Plain(Returned(Some(v), <<>>))
  ELSE ViaInstance(Returned(inst, <<>>))

\* Some.unwrap / None.unwrap
OptionUnwrap(o) ==
  IF o.tag = "Some" THEN Plain(Returned(o.value, <<>>))
  ELSE Plain(Threw(ErrorObj("Called unwrap on a None value"), <<>>))
\* Some.expect / None.expect
OptionExpect(o, message) ==
  IF o.tag = "Some" THEN Plain(Returned(o.value, <<>>))
  ELSE Plain(Threw(ErrorObj(message), <<>>))
\* Some.map / None.map
OptionMap(o, fn, inst) ==
  IF o.tag = "Some" THEN Plain(Returned(Some(Apply(fn, o.value)), <<o.value>>))
  ELSE ViaInstance(Returned(inst, <<>>))
\* Some.flatMap with (x) => some(x * 2) or () => none() / None.flatMap
OptionFlatMap(o, fn, inst) ==
  IF o.tag = "Some"
  THEN IF fn.fn = "someDouble"
       THEN Plain(Returned(Some(JsMul(o.value, Num(2))), <<o.value>>))
       ELSE ViaInstance(Returned(inst, <<o.value>>))
  ELSE ViaInstance(Returned(inst, <<>>))
\* Some.filter / None.filter
OptionFilter(o, pred, inst) ==
  IF o.tag = "Some"
  THEN IF Holds(pred, o.value) THEN Plain(Returned(o, <<o.value>>))
       ELSE ViaInstance(Returned(inst, <<o.value>>))
  ELSE ViaInstance(Returned(inst, <<>>))
\* Some.and / None.and
OptionAnd(o, other, inst) ==
  IF o.tag = "Some" THEN Plain(Returned(other, <<>>))
  ELSE ViaInstance(Returned(inst, <<>>))
\* Some.or / None.or
OptionOr(o, other) ==
  IF o.tag = "Some" THEN Plain(Returned(o, <<>>))
  ELSE Plain(Returned(other, <<>>))

\* (x) => some(x * 2), () => none()
OptionFns == {Fn("someDouble"), Fn("toNone")}
\* The messages handed to expect and expectErr.
Messages == {"should error", "Custom error"}

\* The options a program can hold: a Some of a payload, or the None it
\* got from an earlier operation.
Options(inst) ==
  {Some(v) : v \in Payloads} \cup (IF inst = Undefined THEN {} ELSE {inst})

\* The Option operations with the arguments they are tried with.
OptionCalls(inst) ==
  {[op |-> "none", recv |-> Nothing, arg |-> Nothing]}
  \cup {[op |-> "some", recv |-> Nothing, arg |-> v] : v \in Payloads}
  \cup {[op |-> "fromNullable", recv |-> Nothing, arg |-> v] : v \in Payloads}
  \cup {[op |-> "Option.unwrap", recv |-> o, arg |-> Nothing] : o \in Options(inst)}
  \cup {[op |-> "Option.expect", recv |-> o, arg |-> Str(m)] :
          o \in Options(inst), m \in Messages}
  \cup {[op |-> "Option.map", recv |-> o, arg |-> fn] :
          o \in Options(inst), fn \in MapFns}
  \cup {[op |-> "Option.flatMap", recv |-> o, arg |-> fn] :
          o \in Options(inst), fn \in OptionFns}
  \cup {[op |-> "Option.filter", recv |-> o, arg |-> p] :
          o \in Options(inst), p \in Predicates}
  \cup {[op |-> "Option.and", recv |-> o, arg |-> other] :
          o \in Options(inst), other \in Options(inst)}
  \cup {[op |-> "Option.or", recv |-> o, arg |-> other] :
          o \in Options(inst), other \in Options(inst)}

\* What the call c gives when None.instance would give inst.
OptionResult(c, inst) ==
  CASE c.op = "none" -> none(inst)
    [] c.op = "some" -> some(c.arg)
    [] c.op = "fromNullable" -> fromNullable(c.arg, inst)
    [] c.op = "Option.unwrap" -> OptionUnwrap(c.recv)
    [] c.op = "Option.expect" -> OptionExpect(c.recv, c.arg.s)
    [] c.op = "Option.map" -> OptionMap(c.recv, c.arg, inst)
    [] c.op = "Option.flatMap" -> OptionFlatMap(c.recv, c.arg, inst)
    [] c.op = "Option.filter" -> OptionFilter(c.recv, c.arg, inst)
    [] c.op = "Option.and" -> OptionAnd(c.recv, c.arg, inst)
    [] c.op = "Option.or" -> OptionOr(c.recv, c.arg)

\* One operation on options.  The getter runs only when the operation
\* reads None.instance.
OptionOperation ==
  /\ Idle
  /\ \E c \in OptionCalls(noneInstance) :
       LET g == NoneInstance(noneInstance, noneMade)
           r == OptionResult(c, g.instance)
       IN /\ op' = c.op
          /\ recv' = c.recv
          /\ arg' = c.arg
          /\ ret' = r.out
          /\ noneInstance' = IF r.read THEN g.instance ELSE noneInstance
          /\ noneMade' = IF r.read THEN g.made ELSE noneMade
  /\ UNCHANGED iter
  /\ UNCHANGED <<genVars, tryVars, allVars, partVars>>

(***************************************************************************)
(* Methods of Ok and Err.                                                  *)
(***************************************************************************)
\* JSON.stringify(v) inside a template literal: undefined, which
\* JSON.stringify leaves out, prints as "undefined"; NaN prints as null;
\* an Error has no enumerable field.
JsonText(v) ==
  CASE v.t = "number" -> ToString(v.n)
    [] v.t = "string" -> "\"" \o v.s \o "\""
    [] v.t = "boolean" -> IF v.b THEN "true" ELSE "false"
    [] v.t = "null" -> "null"
    [] v.t = "NaN" -> "null"
    [] v.t = "undefined" -> "undefined"
    [] v.t = "Error" -> "{}"

\* lines 129-131
OkUnwrap(r) == Returned(r.value, <<>>)
\* An unwrap that gives undefined where there is no value.
ErrUnwrapQuiet(r) == Returned(Undefined, <<>>)
\* lines 198-202
ErrUnwrap(r) ==
  Threw(ErrorObj("Called unwrap on an Err value: " \o JsonText(r.error)), <<>>)
\* lines 141-143
OkExpect(r, message) == Returned(r.value, <<>>)
\* lines 212-214
ErrExpect(r, message) ==
  Threw(ErrorObj(message \o ": " \o JsonText(r.error)), <<>>)
\* lines 145-147
OkExpectErr(r, message) == Threw(ErrorObj(message), <<>>)
\* lines 216-218
ErrExpectErr(r, message) == Returned(r.error, <<>>)

\* A map of Err that maps the error.
ErrMapApplies(r, fn) == Returned(Err(Apply(fn, r.error)), <<r.error>>)
\* lines 149-151
OkMap(r, fn) == Returned(Ok(Apply(fn, r.value)), <<r.value>>)
\* lines 220-222
ErrMap(r, fn) == Returned(Err(r.error), <<>>)

\* (x) => ok(x * 2), () => err("error")
ResultFns == {Fn("okDouble"), Fn("errError")}
\* fn(v), for the functions handed to flatMap
ApplyResult(fn, v) ==
  IF fn.fn = "okDouble" THEN Ok(JsMul(v, Num(2))) ELSE Err(Str("error"))

\* A flatMap of Ok that wraps what fn returned.
OkFlatMapWraps(r, fn) == Returned(Ok(ApplyResult(fn, r.value)), <<r.value>>)
\* lines 157-159
OkFlatMap(r, fn) == Returned(ApplyResult(fn, r.value), <<r.value>>)
\* lines 228-230
ErrFlatMap(r, fn) == Returned(Err(r.error), <<>>)

\* r.unwrap(), r.expect(message), r.expectErr(message), r.map(fn),
\* r.flatMap(fn): the method of r's class.
unwrap(r) == IF isOk(r) THEN OkUnwrap(r) ELSE ErrUnwrap(r)
expect(r, message) == IF isOk(r) THEN OkExpect(r, message) ELSE ErrExpect(r, message)
expectErr(r, message) ==
  IF isOk(r) THEN OkExpectErr(r, message) ELSE ErrExpectErr(r, message)
map(r, fn) == IF isOk(r) THEN OkMap(r, fn) ELSE ErrMap(r, fn)
flatMap(r, fn) == IF isOk(r) THEN OkFlatMap(r, fn) ELSE ErrFlatMap(r, fn)

\* The Result methods with the arguments they are tried with.
ResultCalls ==
  {[op |-> "unwrap", recv |-> r, arg |-> Nothing] : r \in Receivers}
  \cup {[op |-> "expect", recv |-> r, arg |-> Str(m)] :
          r \in Receivers, m \in Messages}
  \cup {[op |-> "expectErr", recv |-> r, arg |-> Str(m)] :
          r \in Receivers, m \in Messages}
  \cup {[op |-> "map", recv |-> r, arg |-> fn] : r \in Receivers, fn \in MapFns}
  \cup {[op |-> "flatMap", recv |-> r, arg |-> fn] :
          r \in Receivers, fn \in ResultFns}

\* What the call c gives.
ResultResult(c) ==
  CASE c.op = "unwrap" -> unwrap(c.recv)
    [] c.op = "expect" -> expect(c.recv, c.arg.s)
    [] c.op = "expectErr" -> expectErr(c.recv, c.arg.s)
    [] c.op = "map" -> map(c.recv, c.arg)
    [] c.op = "flatMap" -> flatMap(c.recv, c.arg)

\* One method call on a result.
ResultOperation ==
  /\ Idle
  /\ \E c \in ResultCalls :
       /\ op' = c.op
       /\ recv' = c.recv
       /\ arg' = c.arg
       /\ ret' = ResultResult(c)
  /\ UNCHANGED <<noneInstance, noneMade, iter>>
  /\ UNCHANGED <<genVars, tryVars, allVars, partVars>>

(***************************************************************************)
(* The generators Ok[Symbol.iterator] and Err[Symbol.iterator], advanced   *)
(* by hand as the tests of the iterator protocol do.                       *)
(***************************************************************************)
MaxAdvances == 3

\* An Err whose generator yields itself on every advance.
ErrIteratorYieldsAgain(r, x) == [done |-> FALSE, value |-> r]
\* Err[Symbol.iterator]: next(x) on the generator suspended at its yield;
\* the yield expression evaluates to x, which the generator returns.
ErrIteratorResume(r, x) == [done |-> TRUE, value |-> x]
\* next() on a generator that has returned.
IteratorFinished == [done |-> TRUE, value |-> Undefined]

\* r[Symbol.iterator](): a generator that has not started.
IteratorOpen ==
  /\ \E r \in Receivers : iter' = [of |-> r, state |-> "start", log |-> <<>>]
  /\ UNCHANGED <<op, recv, arg, ret, noneInstance, noneMade>>
  /\ UNCHANGED <<genVars, tryVars, allVars, partVars>>

\* iterator.next(x)
IteratorAdvance ==
  /\ iter # Nothing
  /\ Len(iter.log) < MaxAdvances
  /\ \E x \in Payloads :
       LET res == CASE iter.state = "start" -> IteratorNext(iter.of)
                    [] iter.state = "suspended" -> ErrIteratorResume(iter.of, x)
                    [] iter.state = "completed" -> IteratorFinished
       IN iter' = [of |-> iter.of,
                   state |-> IF res.done THEN "completed" ELSE "suspended",
                   log |-> Append(iter.log, res)]
  /\ UNCHANGED <<op, recv, arg, ret, noneInstance, noneMade>>
  /\ UNCHANGED <<genVars, tryVars, allVars, partVars>>

IterNext == IteratorOpen \/ IteratorAdvance

OpsInit ==
  /\ op = "start"
  /\ recv = Nothing
  /\ arg = Nothing
  /\ ret = Nothing
  /\ noneInstance = Undefined
  /\ noneMade = 0
  /\ iter = Nothing

OpsNext ==
  \/ FromThrowable
  \/ FromPromiseCall
  \/ PromiseSettles
  \/ FromPromiseResume
  \/ OptionOperation
  \/ ResultOperation

(***************************************************************************)
(* The specifications.  Each runs one component; the variables of the      *)
(* other components stay as they are.                                      *)
(***************************************************************************)
GenOff ==
  /\ proc = [steps |-> <<>>, ret |-> "okSum"]
  /\ gpc = "off"
  /\ k = 0
  /\ got = <<>>
  /\ evald = <<>>
  /\ next = Nothing
  /\ sent = <<>>
  /\ genResult = Nothing

TryOff ==
  /\ config = [c \in Calls |-> NoConfig]
  /\ pc = [c \in Calls |-> "absent"]
  /\ TryFresh

AllOff ==
  /\ results = <<>>
  /\ apc = "off"
  /\ ai = 0
  /\ values = <<>>
  /\ allResult = Nothing

PartitionOff ==
  /\ ppc = "off"
  /\ pidx = 0
  /\ okValues = <<>>
  /\ errValues = <<>>
  /\ partResult = Nothing

OpsOff ==
  /\ op = "off"
  /\ recv = Nothing
  /\ arg = Nothing
  /\ ret = Nothing
  /\ noneInstance = Undefined
  /\ noneMade = 0
  /\ iter = Nothing

GenSpecInit == GenInit /\ TryOff /\ AllOff /\ PartitionOff /\ OpsOff
GenSpec == GenSpecInit /\ [][GenNext]_vars

GenChainSpecInit == GenChainInit /\ TryOff /\ AllOff /\ PartitionOff /\ OpsOff
GenChainSpec == GenChainSpecInit /\ [][GenNext]_vars

GenOptionSpecInit == GenOptionInit /\ TryOff /\ AllOff /\ PartitionOff /\ OpsOff
GenOptionSpec == GenOptionSpecInit /\ [][GenNext]_vars

TrySpecInit == GenOff /\ TryInit /\ AllOff /\ PartitionOff /\ OpsOff
TrySpec == TrySpecInit /\ [][TryNext]_vars

\* Every attempt of config.try settles, every timer fires, and a call that
\* is to be made is made.
TryFairness ==
  \A c \in Calls :
    WF_vars(TryCall(c)) /\ WF_vars(Settle(c)) /\ WF_vars(TimerFire(c))
TryFairSpec == TrySpecInit /\ [][TryNext]_vars /\ TryFairness

ConcSpecInit == GenOff /\ ConcInit /\ AllOff /\ PartitionOff /\ OpsOff
ConcSpec == ConcSpecInit /\ [][TryNext]_vars

AllSpecInit == GenOff /\ TryOff /\ AllInit /\ PartitionInit /\ OpsOff
AllSpec == AllSpecInit /\ [][AllNext]_vars

OpsSpecInit == GenOff /\ TryOff /\ AllOff /\ PartitionOff /\ OpsInit
OpsSpec == OpsSpecInit /\ [][OpsNext]_vars

IterSpecInit == GenOff /\ TryOff /\ AllOff /\ PartitionOff /\ OpsOff
IterSpec == IterSpecInit /\ [][IterNext]_vars

(***************************************************************************)
(* Properties of gen, checked under GenSpec.                               *)
(***************************************************************************)
\* Position of the first Err in a sequence of results, 0 when there is none.
FirstErrIn(s) ==
  IF \E i \in 1..Len(s) : s[i].tag = "Err"
  THEN CHOOSE i \in 1..Len(s) :
         s[i].tag = "Err" /\ \A j \in 1..(i - 1) : s[j].tag # "Err"
  ELSE 0

\* The outcomes the steps of the generator function hand over, in order.
StepOuts == [i \in 1..Len(proc.steps) |-> proc.steps[i].out]

RECURSIVE YieldedValues(_, _)
\* The values of the steps among the first n that are handed to the engine
\* by a plain yield.
YieldedValues(steps, n) ==
  IF n = 0 THEN <<>>
  ELSE IF steps[n].mode = "yield"
       THEN Append(YieldedValues(steps, n - 1), steps[n].out.value)
       ELSE YieldedValues(steps, n - 1)

\* C1: when step f is the first step that hands over an Err, no step after
\* f is ever evaluated, the generator is never resumed once step f is handed
\* over (it neither runs again nor completes), and the call returns that
\* very Err: the error of step f, not wrapped.
C1_ShortCircuit ==
  LET f == FirstErrIn(StepOuts)
  IN f > 0 =>
       /\ \A i \in 1..Len(evald) : evald[i] <= f
       /\ k < f
       /\ Len(evald) = f => gpc \in {"yielded", "returned"}
       /\ gpc # "completed"
       /\ (gpc = "yielded" /\ Len(evald) = f) =>
            next = [done |-> FALSE, value |-> StepOuts[f]]
       /\ gpc = "returned" =>
            /\ genResult = StepOuts[f]
            /\ genResult.error = proc.steps[f].out.error
            /\ Len(evald) = f

\* The steps [ok(10), err("B"), ok(20)] of the spec: the call returned
\* err("B") and the third step was never evaluated.
C1_Witness ==
  /\ gpc = "returned"
  /\ Len(proc.steps) = 3
  /\ StepOuts = <<Ok(Num(10)), Err(Str("B")), Ok(Num(20))>>
  /\ genResult = Err(Str("B"))
  /\ evald = <<1, 2>>

\* C2: steps are evaluated in the order of the generator function, one at
\* a time; every completed step produced the unwrapped value of its Ok in
\* the statement that asked for it; the engine's generator.next(v) calls
\* carry exactly the values of the Ok results handed to it; and a generator
\* function that returns ok of the sum of what it received returns ok of the
\* sum of the values of its steps ([ok(10), ok(20)] gives ok(30)).
C2_SuccessPath ==
  /\ evald = [i \in 1..Len(evald) |-> i]
  /\ Len(evald) - k \in {0, 1}
  /\ Len(got) = k
  /\ \A i \in 1..k : StepOuts[i].tag = "Ok" /\ got[i] = StepOuts[i].value
  /\ sent = YieldedValues(proc.steps, k)
  /\ (gpc = "returned" /\ FirstErrIn(StepOuts) = 0 /\ proc.ret = "okSum") =>
       /\ genResult.tag = "Ok"
       /\ genResult.value =
            SumOf([i \in 1..Len(proc.steps) |-> StepOuts[i].value])
       /\ (StepOuts = <<Ok(Num(10)), Ok(Num(20))>>
             => genResult = Ok(Num(30)))

\* [yield ok(10), yield* ok(20)] returning ok(a + b): the engine resumed
\* the generator with 10 and the call returned ok(30).
C2_Witness ==
  /\ gpc = "returned"
  /\ proc.ret = "okSum"
  /\ proc.steps = <<[mode |-> "yield", out |-> Ok(Num(10))],
                    [mode |-> "yield*", out |-> Ok(Num(20))]>>
  /\ sent = <<Num(10)>>
  /\ genResult = Ok(Num(30))

\* C3: when no step hands over an Err, the call returns what the generator
\* function returned, unchanged, be it an Ok or an Err; a generator function
\* without steps is never suspended or resumed and the call returns its
\* return value.
C3_Completion ==
  (gpc = "returned" /\ FirstErrIn(StepOuts) = 0) =>
    /\ next.done
    /\ genResult = next.value
    /\ proc.ret = "errR" => genResult = Err(Str("R"))
    /\ proc.ret = "okSum" => genResult = Ok(SumOf(got))
    /\ proc.steps = <<>> =>
         /\ evald = <<>> /\ sent = <<>>
         /\ genResult = IF proc.ret = "errR" THEN Err(Str("R")) ELSE Ok(Num(0))

\* A generator function that returns err("R") at once, as in the test
\* "should allow early returns".
C3_Witness ==
  /\ gpc = "returned"
  /\ proc.steps = <<>>
  /\ proc.ret = "errR"
  /\ genResult = Err(Str("R"))

\* The number of times the generator has suspended: once for every
\* generator.next(v) that resumed it, and once more while it is suspended
\* or was left suspended by the engine's early return.
Suspensions ==
  Len(sent)
    + (IF gpc = "yielded" \/ (gpc = "returned" /\ ~ next.done) THEN 1 ELSE 0)

\* The step hands its result to the engine: by a plain yield, or by yield*
\* of an Err.
Suspends(s) == s.mode = "yield" \/ isErr(s.out)

\* C19 as stated: the generator has suspended once for every step it has
\* evaluated, Ok steps included.
C19_OncePerStep == Suspensions = Len(evald)

\* C19: a step suspends the generator at most once, and the generator has
\* suspended once for every evaluated step that is a plain yield or a
\* yield* of an Err; a yield* of an Ok goes on without suspending, so the
\* engine never sees that Ok.
C19_Suspensions ==
  /\ Suspensions = Cardinality({j \in 1..Len(evald) : Suspends(proc.steps[evald[j]])})
  /\ Suspensions <= Len(evald)
  /\ \A j \in 1..Len(evald) :
       (proc.steps[evald[j]].mode = "yield*" /\ isOk(proc.steps[evald[j]].out))
         => (j <= Len(got) /\ got[j] = proc.steps[evald[j]].out.value)

\* Two yield* steps of an Ok and a yield* step of an Err: three steps
\* evaluated, one suspension, no generator.next(v) by the engine.
C19_Witness ==
  /\ gpc = "returned"
  /\ Len(proc.steps) = 3
  /\ \A i \in 1..3 : proc.steps[i].mode = "yield*"
  /\ isOk(proc.steps[1].out) /\ isOk(proc.steps[2].out) /\ isErr(proc.steps[3].out)
  /\ Len(evald) = 3
  /\ Suspensions = 1
  /\ sent = <<>>
  /\ genResult = proc.steps[3].out

(***************************************************************************)
(* Properties of gen over generators that compose options, checked under   *)
(* GenOptionSpec.                                                          *)
(***************************************************************************)
\* The step hands a None to the engine: by yield* or by a plain yield.
HandsNone(s) == IsNone(s.out)

\* C21: the engine returns early only when it was handed an Err; a None
\* handed over does not stop it: the engine resumes the generator with
\* undefined, the value field a None does not have, and when no step
\* hands over an Err every step is evaluated and the call returns what
\* the generator returned.
C21_OnlyErrStops ==
  LET f == FirstErrIn(StepOuts)
  IN /\ (gpc = "returned" /\ ~ next.done) =>
          /\ isErr(next.value)
          /\ genResult = next.value
     /\ \A j \in 1..Len(got) : HandsNone(proc.steps[j]) => got[j] = Undefined
     /\ \A j \in 1..Len(proc.steps) :
          (HandsNone(proc.steps[j]) /\ (f = 0 \/ j < f) /\ gpc = "returned")
            => (j \in {evald[i] : i \in 1..Len(evald)}
                /\ Len(evald) = (IF f = 0 THEN Len(proc.steps) ELSE f))
     /\ (f = 0 /\ gpc = "returned") =>
          /\ next.done
          /\ Len(evald) = Len(proc.steps)
          /\ genResult = ReturnOf(proc, got)

\* yield* of the None, then yield* ok(10), then yield* some(20): no Err,
\* the engine resumed the generator once, with undefined, the two steps
\* after the None ran, and the call returned the generator's ok(NaN).
C21_Witness ==
  /\ gpc = "returned"
  /\ proc.ret = "okSum"
  /\ proc.steps = <<[mode |-> "yield*", out |-> NoneObj(1)],
                    [mode |-> "yield*", out |-> Ok(Num(10))],
                    [mode |-> "yield*", out |-> Some(Num(20))]>>
  /\ evald = <<1, 2, 3>>
  /\ sent = <<Undefined>>
  /\ got = <<Undefined, Num(10), Num(20)>>
  /\ genResult = Ok(NaN)

(***************************************************************************)
(* gen against the flatMap chain, checked under GenChainSpec.              *)
(***************************************************************************)
\* C25: the gen-wrapped generator function returns what the flatMap chain
\* of the same steps and the same return statement gives, and it evaluates
\* the same steps in the same order: while it runs, the steps evaluated so
\* far are the first steps the chain invokes.
C25_GenIsFlatMapChain ==
  LET c == Chain(proc)
  IN /\ Len(evald) <= Len(c.invoked)
     /\ evald = SubSeq(c.invoked, 1, Len(evald))
     /\ gpc = "returned" =>
          /\ genResult = c.result
          /\ evald = c.invoked

\* Three yield* steps, each computed from the values before it: ok(10),
\* ok(10 + 1), ok(10 + 11 + 1); gen returns ok(43), as the chain does.
C25_Witness ==
  /\ gpc = "returned"
  /\ proc.ret = "okSum"
  /\ proc.steps = <<[mode |-> "yield*", fn |-> "ok10"],
                    [mode |-> "yield*", fn |-> "okSumPlus1"],
                    [mode |-> "yield*", fn |-> "okSumPlus1"]>>
  /\ evald = <<1, 2, 3>>
  /\ genResult = Ok(Num(43))
  /\ Chain(proc).result = Ok(Num(43))

(***************************************************************************)
(* Properties of tryPromise, checked under TrySpec (one call) and          *)
(* ConcSpec (two calls).                                                   *)
(***************************************************************************)
Made == {c \in Calls : pc[c] # "absent"}
Last(s) == s[Len(s)]

\* C4: config.try is invoked at most retry.times + 1 times when retry is
\* configured with a non-negative times, at most once when it is not, and a
\* call that has returned has invoked it at least once (exactly once
\* without retry).
C4_AttemptBudget ==
  \A c \in Made :
    LET retry == config[c].retry
    IN /\ retry = Undefined =>
            /\ invocations[c] <= 1
            /\ pc[c] = "done" => invocations[c] = 1
       /\ (retry # Undefined /\ retry.times >= 0) =>
            /\ invocations[c] <= retry.times + 1
            /\ pc[c] = "done" => invocations[c] >= 1

\* The test "should retry with linear backoff": times 3, two failures, then
\* "success" on the third of the four attempts allowed.
C4_Witness ==
  /\ pc["A"] = "done"
  /\ config["A"].retry # Undefined
  /\ config["A"].retry = [times |-> 3, delayMs |-> 10, backoff |-> "linear"]
  /\ invocations["A"] = 3
  /\ outcome["A"] = Fulfilled(Ok(Str("success")))

\* C5: once an attempt has fulfilled with v the call has returned Ok(v):
\* that attempt is the last one (config.try was invoked once per settled
\* attempt, all earlier attempts failed) and no delay follows it (one delay
\* per failed attempt before it, none after).
C5_SuccessStops ==
  \A c \in Made :
    (tries[c] # <<>> /\ Last(tries[c]).state = "fulfilled") =>
      /\ pc[c] = "done"
      /\ outcome[c] = Fulfilled(Ok(Last(tries[c]).value))
      /\ invocations[c] = Len(tries[c])
      /\ \A i \in 1..(Len(tries[c]) - 1) : tries[c][i].state = "rejected"
      /\ Len(delays[c]) = Len(tries[c]) - 1

\* The test "should retry with exponential backoff": times 2, success on
\* the second attempt, the third attempt is never made.
C5_Witness ==
  /\ pc["A"] = "done"
  /\ config["A"].retry # Undefined
  /\ config["A"].retry = [times |-> 2, delayMs |-> 10, backoff |-> "exponential"]
  /\ tries["A"] = <<Rejected(ErrorObj("Not yet")), Fulfilled(Str("success"))>>
  /\ invocations["A"] = 2
  /\ delays["A"] = <<10>>
  /\ outcome["A"] = Fulfilled(Ok(Str("success")))

C7_DelaySchedule ==
  \A c \in Made :
    LET retry == config[c].retry
    IN /\ retry = Undefined => delays[c] = <<>>
       /\ retry # Undefined =>
            /\ Len(delays[c]) <= Len(tries[c])
            /\ \A i \in 1..Len(delays[c]) :
                 /\ tries[c][i].state = "rejected"
                 /\ retry.backoff = "linear" => delays[c][i] = retry.delayMs
                 /\ retry.backoff = "exponential" =>
                      delays[c][i] = retry.delayMs * Pow2(i - 1)
            /\ (/\ retry = [times |-> 2, delayMs |-> 10, backoff |-> "exponential"]
                /\ Len(tries[c]) = 3
                /\ Last(tries[c]).state = "fulfilled") =>
                 /\ invocations[c] = 3
                 /\ delays[c] = <<10, 20>>
                 /\ outcome[c] = Fulfilled(Ok(Last(tries[c]).value))
            /\ (/\ retry = [times |-> 3, delayMs |-> 200, backoff |-> "exponential"]
                /\ Len(delays[c]) = 3) =>
                 delays[c] = <<200, 400, 800>>

\* times 2, delayMs 10, exponential, failing twice, then succeeding.
C7_Witness ==
  /\ pc["A"] = "done"
  /\ config["A"].retry # Undefined
  /\ config["A"].retry = [times |-> 2, delayMs |-> 10, backoff |-> "exponential"]
  /\ tries["A"] = <<Rejected(ErrorObj("Not yet")), Rejected(ErrorObj("Not yet")),
                    Fulfilled(Num(42))>>
  /\ invocations["A"] = 3
  /\ delays["A"] = <<10, 20>>
  /\ outcome["A"] = Fulfilled(Ok(Num(42)))

\* C8: the promise of a tryPromise call never rejects: every fault raised
\* while the call runs ends as a returned Err.
C8_NeverRaises ==
  \A c \in Made : pc[c] = "done" => outcome[c].state = "fulfilled"

\* C9: with two calls in flight, a call that is suspended (in an attempt
\* or in a delay) never keeps the other call from taking its next step; and
\* in every interleaving each call's attempts and outcome follow from its
\* own attempts alone: it makes one attempt after the other until one
\* fulfils or its own budget of times + 1 is used up, its loop variable
\* counts its own delays, and it returns Ok of its own fulfilled value or
\* Err of the fault of its own last attempt.
C9_Independent ==
  /\ \A c \in Made :
       LET ts == tries[c]
           times == config[c].retry.times
           ended == /\ ts # <<>>
                    /\ \/ Last(ts).state = "fulfilled"
                       \/ Len(ts) = times + 1
       IN /\ invocations[c] = Len(ts) + (IF pc[c] = "attempting" THEN 1 ELSE 0)
          /\ Len(ts) <= times + 1
          /\ \A i \in 1..(Len(ts) - 1) : ts[i].state = "rejected"
          /\ attempt[c] = Len(delays[c]) - (IF pc[c] = "delaying" THEN 1 ELSE 0)
          /\ Len(delays[c]) = Len(ts) - (IF pc[c] = "done" THEN 1 ELSE 0)
          /\ (pc[c] = "done") = ended
          /\ pc[c] = "done" =>
               outcome[c] = IF Last(ts).state = "fulfilled"
                            THEN Fulfilled(Ok(Last(ts).value))
                            ELSE Fulfilled(Err(Last(ts).reason))
  /\ \A c \in Made : \A d \in Made \ {c} :
       pc[c] \in {"attempting", "delaying"} =>
         /\ pc[d] = "idle" => ENABLED TryCall(d)
         /\ pc[d] = "attempting" => ENABLED Settle(d)
         /\ pc[d] = "delaying" => ENABLED TimerFire(d)

\* Two calls with the same config: "A" is still in its first delay while
\* "B" has made both of its attempts and returned.
C9_Witness ==
  /\ config["A"] = config["B"]
  /\ config["A"].retry.times = 1
  /\ pc["A"] = "delaying"
  /\ attempt["A"] = 0
  /\ pc["B"] = "done"
  /\ invocations["B"] = 2
  /\ outcome["B"] = Fulfilled(Ok(Num(42)))

\* The attempts of call c that have settled were all rejected, but for the
\* last n of them.
AllRejectedBut(c, n) ==
  \A i \in 1..(Len(tries[c]) - n) : tries[c][i].state = "rejected"

\* C22 in a state: with retry configured, while an attempt is in flight
\* there is one delay for every attempt before it; while a delay is awaited
\* there is one delay for every attempt made, each of them rejected, and
\* attempts remain; when the call is over after at least one attempt the
\* delays are one fewer than the attempts, so that none followed the last
\* attempt, and only the last attempt may have succeeded.
C22_Counts(c) ==
  config[c].retry # Undefined =>
    /\ pc[c] = "attempting" =>
         /\ Len(tries[c]) = invocations[c] - 1
         /\ Len(delays[c]) = invocations[c] - 1
         /\ AllRejectedBut(c, 0)
    /\ pc[c] = "delaying" =>
         /\ Len(tries[c]) = invocations[c]
         /\ Len(delays[c]) = invocations[c]
         /\ AllRejectedBut(c, 0)
         /\ invocations[c] < config[c].retry.times + 1
    /\ (pc[c] = "done" /\ invocations[c] >= 1) =>
         /\ Len(tries[c]) = invocations[c]
         /\ Len(delays[c]) = invocations[c] - 1
         /\ AllRejectedBut(c, 1)

\* C22 in a step: a further attempt starts only from the wait for the
\* delay that followed the rejection of the attempt before it, and a delay
\* starts only when the attempt in flight is rejected.
C22_Steps(c) ==
  config[c].retry # Undefined =>
    /\ (invocations'[c] = invocations[c] + 1 /\ invocations[c] >= 1) =>
         /\ pc[c] = "delaying"
         /\ Len(delays[c]) = invocations[c]
         /\ Last(tries[c]).state = "rejected"
    /\ Len(delays'[c]) = Len(delays[c]) + 1 =>
         /\ pc[c] = "attempting"
         /\ Last(tries'[c]).state = "rejected"
         /\ invocations'[c] = invocations[c]
    /\ Len(delays'[c]) \in {Len(delays[c]), Len(delays[c]) + 1}
    /\ invocations'[c] \in {invocations[c], invocations[c] + 1}

Budget(c) ==
  IF config[c].retry = Undefined THEN 1 ELSE config[c].retry.times + 1

\* The promise of call c has fulfilled with a result, after no more than
\* retry.times + 1 calls of config.try.
ReturnedOutcome(c) ==
  /\ pc[c] = "done"
  /\ outcome[c].state = "fulfilled"
  /\ outcome[c].value.tag \in {"Ok", "Err"}
  /\ invocations[c] <= Budget(c)

\* C23 as stated: when every attempt settles and every timer fires, a call
\* with a non-negative retry.times ends by returning a result, after no
\* more than retry.times + 1 attempts.
C23_Terminates ==
  \A c \in Calls :
    (/\ pc[c] = "idle"
     /\ config[c].retry # Undefined
     /\ config[c].retry.times >= 0)
      ~> ReturnedOutcome(c)

\* What holds of C23: the promise of such a call settles after no more
\* than retry.times + 1 attempts, and it is rejected only with what
\* config.catch threw on the fault of the last attempt.
C23_Settles ==
  \A c \in Calls :
    (/\ pc[c] = "idle"
     /\ config[c].retry # Undefined
     /\ config[c].retry.times >= 0)
      ~> \/ ReturnedOutcome(c)
         \/ /\ pc[c] = "done"
            /\ invocations[c] <= Budget(c)
            /\ outcome[c].state = "rejected"
            /\ MessageMapper(Last(tries[c]).reason).threw

\* A call with retry configured whose last attempt rejects with undefined:
\* the mapper throws and the promise of the call is rejected.
C23_Witness ==
  /\ pc["A"] = "done"
  /\ config["A"].retry # Undefined
  /\ config["A"].retry.times = 1
  /\ invocations["A"] = 2
  /\ outcome["A"] = Rejected(ErrorObj("TypeError"))

\* line 348: the result returned after the loop.
FallbackResult == Fulfilled(Err(ErrorObj("Unexpected retry error")))

C10_AllShortCircuit ==
  LET f == FirstErrIn(results)
  IN f > 0 =>
       /\ ai <= f
       /\ Len(values) <= f - 1
       /\ apc = "returned" =>
            /\ ai = f
            /\ allResult.tag = "Err"
            /\ allResult.error = results[f].error
            /\ all(results) = allResult
            /\ \A ys \in Inputs :
                 (Len(ys) >= f /\ SubSeq(ys, 1, f) = SubSeq(results, 1, f))
                   => all(ys) = allResult

\* The test "should preserve error from first failure":
\* [ok(1), err("x"), err("y")] gives err("x"), the third element untouched.
C10_Witness ==
  /\ apc = "returned"
  /\ results = <<Ok(Num(1)), Err(Str("x")), Err(Str("y"))>>
  /\ ai = 2
  /\ allResult = Err(Str("x"))

\* C11: when the input holds no Err, the loop collects the values in input
\* order, and all returns an Ok of a sequence as long as the input whose
\* i-th element is the value of the i-th input; for the empty input it
\* returns an Ok of the empty sequence.
C11_AllSuccess ==
  FirstErrIn(results) = 0 =>
    /\ apc = "called" =>
         /\ Len(values) = ai
         /\ \A i \in 1..ai : values[i] = results[i].value
    /\ apc = "returned" =>
         /\ ai = Len(results)
         /\ allResult.tag = "Ok"
         /\ Len(allResult.value) = Len(results)
         /\ \A i \in 1..Len(results) : allResult.value[i] = results[i].value
         /\ all(results) = allResult
         /\ results = <<>> => allResult = Ok(<<>>)

\* The test "should collect all Ok values", with the values of ResultSet:
\* three Ok inputs, every one taken, their values in input order.
C11_Witness ==
  /\ apc = "returned"
  /\ results = <<Ok(Num(1)), Ok(Num(2)), Ok(Num(1))>>
  /\ ai = 3
  /\ allResult = Ok(<<Num(1), Num(2), Num(1)>>)

(***************************************************************************)
(* Properties of partition, checked under AllSpec.                         *)
(***************************************************************************)
\* The positions of s whose element is an Ok (ok = TRUE) or an Err, in order.
RECURSIVE PositionsOf(_, _)
PositionsOf(s, ok) ==
  IF s = <<>> THEN <<>>
  ELSE LET n == Len(s)
           before == PositionsOf(SubSeq(s, 1, n - 1), ok)
       IN IF isOk(s[n]) = ok THEN Append(before, n) ELSE before

\* C12: partition returns only after its loop has taken every element, and
\* then the ok output holds the values of the Ok elements and the err output
\* the errors of the Err elements, each in input order, so that the two
\* lengths add up to the length of the input; while the loop runs the two
\* arrays hold exactly that for the elements taken so far.
C12_Partition ==
  LET taken == SubSeq(results, 1, pidx)
      oks   == PositionsOf(taken, TRUE)
      errs  == PositionsOf(taken, FALSE)
  IN ppc \in {"called", "returned"} =>
       /\ Len(okValues) = Len(oks)
       /\ Len(errValues) = Len(errs)
       /\ \A j \in 1..Len(oks) : okValues[j] = results[oks[j]].value
       /\ \A j \in 1..Len(errs) : errValues[j] = results[errs[j]].error
       /\ Len(okValues) + Len(errValues) = pidx
       /\ ppc = "returned" =>
            /\ pidx = Len(results)
            /\ partResult = [ok |-> okValues, err |-> errValues]
            /\ Len(partResult.ok) + Len(partResult.err) = Len(results)
            /\ partition(results) = partResult

\* The shape of the test "should separate Ok and Err values": Ok and Err
\* elements mixed, an Err before the last Ok, every element taken.
C12_Witness ==
  /\ ppc = "returned"
  /\ results = <<Ok(Num(1)), Err(Str("x")), Ok(Num(2))>>
  /\ pidx = 3
  /\ partResult = [ok |-> <<Num(1), Num(2)>>, err |-> <<Str("x")>>]

(***************************************************************************)
(* all against partition, checked under AllSpec.                           *)
(***************************************************************************)
\* a, the result of all, agrees with p, the result of partition.
Agree(a, p) ==
  /\ isOk(a) <=> p.err = <<>>
  /\ isOk(a) => a.value = p.ok
  /\ isErr(a) => (p.err # <<>> /\ a.error = p.err[1])

\* C26: for the same input, all returns an Ok exactly when the err output
\* of partition is empty, and then its value is the ok output; otherwise
\* it returns an Err whose error is the first element of the err output.
C26_AllAgreesWithPartition ==
  /\ Agree(all(results), partition(results))
  /\ (apc = "returned" /\ ppc = "returned") => Agree(allResult, partResult)

\* Both calls have returned for [ok(1), err("x"), err("y")]: all gave
\* err("x"), the first of the two errors partition collected.
C26_Witness ==
  /\ apc = "returned"
  /\ ppc = "returned"
  /\ results = <<Ok(Num(1)), Err(Str("x")), Err(Str("y"))>>
  /\ allResult = Err(Str("x"))
  /\ partResult = [ok |-> <<Num(1)>>, err |-> <<Str("x"), Str("y")>>]

(***************************************************************************)
(* Properties of the single operations, checked under OpsSpec.             *)
(***************************************************************************)
\* C13: fromThrowable(f) calls f exactly once and returns: an Ok holding
\* what f returned, or an Err holding what f threw; fromPromise(p) gives,
\* once p has settled, an Ok holding the value p fulfilled with or an Err
\* holding the reason p rejected with, and gives nothing before.  Neither
\* throws, and the payload is the very value or fault.
C13_CaptureBoundaries ==
  /\ op = "fromThrowable" =>
       /\ ret.kind = "return"
       /\ ret.calls = <<NoArgument>>
       /\ arg.body = "return" => ret.value = Ok(arg.value)
       /\ arg.body = "throw" => ret.value = Err(arg.value)
  /\ op = "fromPromise" =>
       /\ arg = PendingPromise => ret = Pending
       /\ ret # Pending =>
            /\ ret.kind = "return"
            /\ arg.state = "fulfilled" => ret.value = Ok(arg.value)
            /\ arg.state = "rejected" => ret.value = Err(arg.reason)

\* The test "should preserve error type": the function throws
\* new Error("oops") and fromThrowable returns an Err holding that Error.
C13_Witness ==
  /\ op = "fromThrowable"
  /\ arg = ThunkThrows(ErrorObj("oops"))
  /\ ret = Returned(Err(ErrorObj("oops")), <<NoArgument>>)

\* C14: unwrap and expect on an Err or on a None, and expectErr on an Ok,
\* end by throwing an Error and return nothing; unwrap and expect on an Ok
\* or a Some return the value, and expectErr on an Err returns the error.
C14_WrongVariantRaises ==
  /\ op \in {"unwrap", "expect"} =>
       /\ isErr(recv) => (ret.kind = "throw" /\ ret.value.t = "Error")
       /\ isOk(recv) => ret = Returned(recv.value, <<>>)
  /\ op = "expectErr" =>
       /\ isOk(recv) => (ret.kind = "throw" /\ ret.value = ErrorObj(arg.s))
       /\ isErr(recv) => ret = Returned(recv.error, <<>>)
  /\ op \in {"Option.unwrap", "Option.expect"} =>
       /\ IsNone(recv) => (ret.kind = "throw" /\ ret.value.t = "Error")
       /\ ~ IsNone(recv) => ret = Returned(recv.value, <<>>)

\* unwrap on err("error") throws an Error whose message ends with the
\* error as JSON text.
C14_Witness ==
  /\ op = "unwrap"
  /\ recv = Err(Str("error"))
  /\ ret = Threw(ErrorObj("Called unwrap on an Err value: \"error\""), <<>>)

\* C15: map with the identity gives a result equal to the receiver; on an
\* Ok, map with f and then map with g gives the same as one map with
\* x => g(f(x)); on an Err, map makes no call of its function and gives an
\* Err with the same error.
C15_FunctorLaws ==
  op = "map" =>
    /\ ret.kind = "return"
    /\ arg = Fn("identity") => ret.value = recv
    /\ isOk(recv) =>
         \A g \in MapFns :
           map(ret.value, g).value = map(recv, Compose(g, arg)).value
    /\ isErr(recv) =>
         /\ ret.calls = <<>>
         /\ ret.value = Err(recv.error)

\* ok(42).map(x => x * 2) is ok(84), and mapping that with x => x - 1
\* gives ok(83).
C15_Witness ==
  /\ op = "map"
  /\ recv = Ok(Num(42))
  /\ arg = Fn("double")
  /\ ret = Returned(Ok(Num(84)), <<Num(42)>>)
  /\ map(ret.value, Fn("decrement")).value = Ok(Num(83))

\* C16: flatMap on an Err makes no call of its function and gives an Err
\* with the same error; flatMap on an Ok calls the function once, with the
\* value, and returns what the function returned, an Ok or an Err.
C16_FlatMap ==
  op = "flatMap" =>
    /\ ret.kind = "return"
    /\ isErr(recv) =>
         /\ ret.calls = <<>>
         /\ ret.value = Err(recv.error)
    /\ isOk(recv) =>
         /\ ret.calls = <<recv.value>>
         /\ ret.value = ApplyResult(arg, recv.value)

\* The test "should flatMap to Err": ok(42).flatMap(() => err("error")).
C16_Witness ==
  /\ op = "flatMap"
  /\ recv = Ok(Num(42))
  /\ arg = Fn("errError")
  /\ ret = Returned(Err(Str("error")), <<Num(42)>>)

\* C17: fromNullable(v) returns a None exactly when v is null or
\* undefined, and a Some holding v for every other v, the falsy 0, ""
\* and false among them.
C17_FromNullable ==
  op = "fromNullable" =>
    /\ ret.kind = "return"
    /\ IsNone(ret.value) <=> arg \in {Null, Undefined}
    /\ arg \notin {Null, Undefined} => ret.value = Some(arg)

\* The test "should handle falsy values": fromNullable(0) is a Some of 0.
C17_Witness ==
  /\ op = "fromNullable"
  /\ arg = Num(0)
  /\ ret = Returned(Some(Num(0)), <<>>)

\* C18: at most one None is ever constructed; once constructed it stays in
\* None._instance, and every None an operation returns or is applied to is
\* that object.
C18_NoneSingleton ==
  /\ noneMade <= 1
  /\ noneInstance = Undefined <=> noneMade = 0
  /\ noneInstance # Undefined => noneInstance = NoneObj(1)
  /\ ("value" \in DOMAIN ret /\ IsNone(ret.value)) => ret.value = noneInstance
  /\ IsNone(recv) => recv = noneInstance
  /\ IsNone(arg) => arg = noneInstance

\* A None got from an earlier operation is mapped, and map returns that
\* same None.
C18_Witness ==
  /\ op = "Option.map"
  /\ recv = NoneObj(1)
  /\ ret = Returned(NoneObj(1), <<>>)
  /\ noneMade = 1

(***************************************************************************)
(* Properties of the iterators, checked under IterSpec.                    *)
(***************************************************************************)
\* The advances of the iterator that left its generator suspended.
Yields == {j \in 1..Len(iter.log) : ~ iter.log[j].done}

\* C20: the first advance of an Ok's iterator finds it done, with the
\* Ok's value, and the iterator never yields; the first advance of an
\* Err's iterator finds it not done and yields that Err; no iterator of a
\* result yields more than once.
C20_IteratorProtocol ==
  iter # Nothing =>
    /\ Cardinality(Yields) <= 1
    /\ isOk(iter.of) =>
         /\ Yields = {}
         /\ Len(iter.log) >= 1 => iter.log[1] = [done |-> TRUE, value |-> iter.of.value]
    /\ isErr(iter.of) =>
         /\ Len(iter.log) >= 1 => iter.log[1] = [done |-> FALSE, value |-> iter.of]
         /\ Yields \subseteq {1}

\* The iterator of err("error") advanced three times: it yields the Err,
\* then returns the value sent to it, then stays done.
C20_Witness ==
  /\ iter # Nothing
  /\ iter.of = Err(Str("error"))
  /\ iter.log = <<[done |-> FALSE, value |-> Err(Str("error"))],
                  [done |-> TRUE, value |-> Num(42)],
                  [done |-> TRUE, value |-> Undefined]>>

=============================================================================
